---- MODULE Spec2Model ----
(***************************************************************************)
(* GhostText-Any: a model of the debounce stream combinator                *)
(* (src/debounce.rs), the UTF-16 -> UTF-8 cursor mapper                    *)
(* (src/server/text.rs), the local file mirror (src/server/file.rs) and    *)
(* the websocket session (src/server.rs) and the editor command line       *)
(* (src/server/editor.rs), and the idle shutdown task (src/server.rs).     *)
(*                                                                         *)
(* Each component has its own specification (SpecDebounce, SpecCursor,     *)
(* ...); the variables of the other components keep their initial value.   *)
(* An Option<T> is a sequence of length <= 1: <<>> is None, <<v>> Some(v). *)
(***************************************************************************)
EXTENDS Integers, Sequences, FiniteSets, TLC

VARIABLES
    \* ---- debounce.rs: Debounce<S> and its environment ----
    stream,     \* Fuse<S>: [pending: items ready to be polled, done: source completed]
    deadline,   \* Sleep: the instant the timer is armed for
    last,       \* Option<S::Item>
    duration,   \* Duration, in clock ticks
    now,        \* tokio's clock (Instant::now())
    arrivedAt,  \* history: arrivedAt[i] is the instant item i became ready in the source
    emitted,    \* history: what poll_next returned as Ready(Some(_)), in order
    ended,      \* poll_next has returned Ready(None)
    polled      \* history: what the last call of poll_next has found (the item
                \* buffered, whether its deadline had come, the items ready)

debounceVars == <<stream, deadline, last, duration, now, arrivedAt, emitted, ended, polled>>

VARIABLES
    \* ---- server/text.rs: one call of utf16_offset_to_utf8_line_col ----
    curText,    \* text: &str, as its sequence of Unicode scalar values
    curOffset,  \* offset: usize
    curResult   \* Option<(line, col)>: None before the call has returned

cursorVars == <<curText, curOffset, curResult>>

VARIABLES
    \* ---- the file system, and server/file.rs: LocalFile ----
    fsDirs,     \* the temporary directories that exist (under the temp root)
    fsFiles,    \* path -> [content, mtime] of the files that exist
    sysTime,    \* SystemTime::now(), the clock file modification times are taken from
    mirror,     \* mirror[m]: the LocalFile m (its fields, and whether it is alive)
    ret         \* Option: the call of maybe_update or get_current_contents that has
                \* just returned, with the value it returned; or the text a session
                \* has written to its file, nothing having written the file since;
                \* or the first message a session has just refused; or whether
                \* the status an editor process has just exited with is success

mirrorVars == <<fsDirs, fsFiles, sysTime, mirror, ret>>

VARIABLES
    \* ---- server.rs: the websocket sessions (handle_websocket) ----
    session,        \* session[s]: where the task of connection s is, and its locals
    single_access,  \* State::single_access, the permits of the Semaphore
    multi,          \* Options::multi
    mirrorKind,     \* what a session keeps its file with: "inline" as server.rs
                    \* does (TempDir, get_new_path, init_file), or "LocalFile"
    clients,        \* how many connections the run gets
    thread_update,  \* the ThreadStatus channel (options.idle_timeout being set): how
                    \* many Started and how many Finished have been sent on it
    tx              \* the messages the last step has sent on a websocket

sessionVars == <<session, single_access, multi, mirrorKind, clients, thread_update, tx>>

VARIABLES
    \* ---- server/editor.rs: one call of perform_substitutions ----
    edCommand,  \* shell_words::split(&options.editor): the tokens of the command
    edFile,     \* file_path: &str
    edCursor,   \* <<line, col>>, each as to_string() writes it
    pieces,     \* Option<Vec<String>>: the tokens once the call has returned
    edOutcome   \* how far spawn_editor has got: "none", the error it has returned
                \* ("EmptyCommand", "spawn_error"), "panic", or "spawned"

editorVars == <<edCommand, edFile, edCursor, pieces, edOutcome>>

VARIABLES
    \* ---- server.rs: idle_timeout, the task that counts the sessions ----
    idle_timeout,    \* Options::idle_timeout, Option<ticks of the clock>
    alive_count,     \* alive_count
    status_updater,  \* the ThreadStatus values sent and not yet received
    idleTimer,       \* Option: the time the pending time::timeout has run for
    idleTask,        \* "none" (no idle timeout), "running", or "stopped"
    shutdowns,       \* how many times graceful shutdown has been triggered
    fired,           \* Option: what held when the timeout elapsed
    quiet,           \* history: the time since a ThreadStatus was last sent
    conns,           \* how many connection tasks have started, and have ended
    connections,     \* connections[c]: the task of connection c ("none", "running",
                     \* "ended"), and history: the last ThreadStatus of that task
                     \* that idle_timeout has received ("none", "Started", "Finished")
    status_from      \* history: the connection that has sent each status in status_updater

idleVars == <<idle_timeout, alive_count, status_updater, idleTimer, idleTask,
              shutdowns, fired, quiet, conns, connections, status_from>>

vars == <<debounceVars, cursorVars, mirrorVars, sessionVars, editorVars, idleVars>>

----------------------------------------------------------------------------
(* Bounds of the model *)

\* number of items the source produces at most
MaxItems == 3
\* the clock stops at this instant
MaxTime == 5
\* the non-zero debounce interval that is explored, in ticks
Wait == 2
\* the longest text given to the cursor mapper, in scalar values
MaxTextLen == 3
\* the longest text of an edit request given to a mirror
MaxFileTextLen == 1
\* the longest title of an edit request
MaxTitleLen == 0
\* the system clock stops at this instant
MaxSysTime == 1

None == <<>>
Some(v) == <<v>>

RECURSIVE SeqsUpTo(_, _)
\* the sequences over S of length at most n
SeqsUpTo(S, n) ==
    IF n = 0 THEN {<<>>}
    ELSE LET shorter == SeqsUpTo(S, n - 1) IN
         shorter \cup {Append(t, c) : t \in shorter, c \in S}

----------------------------------------------------------------------------
(* debounce.rs *)

\* Poll<Option<Item>>
Pending == [ready |-> FALSE, item |-> None, by |-> "pending"]
Ready(opt, why) == [ready |-> TRUE, item |-> opt, by |-> why]

\* lines 70-71 with a deadline that is not re-armed
ArmDeadlineKeepOld(t, dl) == dl

\* lines 70-71: let next = Instant::now() + *me.duration; me.deadline.reset(next)
ArmDeadline(t, dl) == t + duration

\* line 68 with an item that is buffered kept
StoreLastKeepFirst(old, v) == IF old # None THEN old ELSE Some(v)

\* line 68: *me.last = v
StoreLast(old, v) == Some(v)

\* line 63 without the test for a zero duration
DurationIsZeroNever == FALSE

\* line 63: me.duration.is_zero()
DurationIsZero == duration = 0

\* line 76: ready!(me.deadline.poll(cx)), a Sleep is ready once its instant has come
TimerElapsed(t, dl) == t >= dl

\* line 60 with the buffered item discarded when the source ends
TakeOnEndDiscard(l) == None

\* line 60: return Poll::Ready(me.last.take()) when the source has ended
TakeOnEnd(l) == l

\* lines 74-80 without the me.last.is_some() guard of line 75
AfterDrainNoGuard(l, dl) ==
    IF TimerElapsed(now, dl)
    THEN [ret |-> Ready(l, "timer"), last |-> None, deadline |-> dl]
    ELSE [ret |-> Pending, last |-> l, deadline |-> dl]

\* lines 74-80 with the buffered item left in place when it is returned
AfterDrainKeepLast(l, dl) ==
    IF l # None /\ TimerElapsed(now, dl)
    THEN [ret |-> Ready(l, "timer"), last |-> l, deadline |-> dl]
    ELSE [ret |-> Pending, last |-> l, deadline |-> dl]

\* lines 74-80: the source is Pending; emit the buffered item if the timer is up
AfterDrain(l, dl) ==
    IF l # None
    THEN IF TimerElapsed(now, dl)
         THEN [ret |-> Ready(l, "timer"), last |-> None, deadline |-> dl]
         ELSE [ret |-> Pending, last |-> l, deadline |-> dl]
    ELSE [ret |-> Pending, last |-> l, deadline |-> dl]

RECURSIVE PollLoop(_, _, _)
\* lines 56-72: while let Poll::Ready(v) = me.stream.poll_next(cx) { ... }, then 74-80.
\* pend: the items the source has ready; l, dl: me.last and me.deadline so far.
PollLoop(pend, l, dl) ==
    IF pend = <<>>
    THEN IF stream.done
         THEN \* v.is_none(): the (fused) source has ended
              [ret |-> Ready(TakeOnEnd(l), "end"), last |-> None, deadline |-> dl,
               pending |-> pend]
         ELSE AfterDrain(l, dl) @@ [pending |-> pend]
    ELSE IF DurationIsZero
         THEN [ret |-> Ready(Some(Head(pend)), "zero"), last |-> l, deadline |-> dl,
               pending |-> Tail(pend)]
         ELSE PollLoop(Tail(pend), StoreLast(l, Head(pend)), ArmDeadline(now, dl))

\* Debounce::poll_next, lines 52-81: one call by the consumer of the stream
PollNext ==
    /\ ~ended
    /\ LET r == PollLoop(stream.pending, last, deadline) IN
       /\ stream' = [stream EXCEPT !.pending = r.pending]
       /\ last' = r.last
       /\ deadline' = r.deadline
       /\ emitted' = IF r.ret.ready /\ r.ret.item # None
                     THEN Append(emitted, [item |-> r.ret.item[1], at |-> now,
                                           by |-> r.ret.by])
                     ELSE emitted
       /\ ended' = (r.ret.ready /\ r.ret.item = None)
    /\ polled' = Some([last |-> last, overdue |-> TimerElapsed(now, deadline),
                       ready |-> stream.pending, done |-> stream.done])
    /\ UNCHANGED <<duration, now, arrivedAt>>
    /\ UNCHANGED <<cursorVars, editorVars, idleVars, mirrorVars, sessionVars>>

\* the wrapped source makes its next item ready (items are numbered in arrival order)
SourceItem ==
    /\ ~stream.done
    /\ Len(arrivedAt) < MaxItems
    /\ stream' = [stream EXCEPT !.pending = Append(@, Len(arrivedAt) + 1)]
    /\ arrivedAt' = Append(arrivedAt, now)
    /\ UNCHANGED <<deadline, last, duration, now, emitted, ended, polled>>
    /\ UNCHANGED <<cursorVars, editorVars, idleVars, mirrorVars, sessionVars>>

\* the wrapped source completes: once its ready items are taken it returns None
SourceEnd ==
    /\ ~stream.done
    /\ stream' = [stream EXCEPT !.done = TRUE]
    /\ UNCHANGED <<deadline, last, duration, now, arrivedAt, emitted, ended, polled>>
    /\ UNCHANGED <<cursorVars, editorVars, idleVars, mirrorVars, sessionVars>>

\* time passes
Tick ==
    /\ now < MaxTime
    /\ now' = now + 1
    /\ UNCHANGED <<stream, deadline, last, duration, arrivedAt, emitted, ended, polled>>
    /\ UNCHANGED <<cursorVars, editorVars, idleVars, mirrorVars, sessionVars>>

\* Debounce::new, lines 36-46, for a given wait
DebounceNew(wait) ==
    /\ stream = [pending |-> <<>>, done |-> FALSE]
    /\ last = None
    /\ now = 0
    /\ deadline = now + wait
    /\ duration = wait
    /\ arrivedAt = <<>>
    /\ emitted = <<>>
    /\ ended = FALSE
    /\ polled = None

----------------------------------------------------------------------------
(* server/text.rs (the same function is at server.rs:248-331) *)

\* The scalar values a text is made of, one of each encoded length:
\* "a" U+0061, "nl" U+000A, "e2" U+00E9, "e3" U+20AC, "astral" U+1D617.
Chars == {"a", "nl", "e2", "e3", "astral"}

\* char::len_utf8
LenUtf8(c) ==
    CASE c = "a" -> 1 [] c = "nl" -> 1 [] c = "e2" -> 2 [] c = "e3" -> 3
      [] c = "astral" -> 4

\* char::len_utf16
LenUtf16(c) == IF c = "astral" THEN 2 ELSE 1

\* the value of a UTF-16 code unit; "hi"/"lo" are the surrogates of U+1D617
UnitValue(u) ==
    CASE u = "a" -> 97 [] u = "nl" -> 10 [] u = "e2" -> 233 [] u = "e3" -> 8364
      [] u = "hi" -> 55349 [] u = "lo" -> 56855

RECURSIVE EncodeUtf16(_)
\* line 6: text.encode_utf16()
EncodeUtf16(text) ==
    IF text = <<>> THEN <<>>
    ELSE (IF Head(text) = "astral" THEN <<"hi", "lo">> ELSE <<Head(text)>>)
         \o EncodeUtf16(Tail(text))

RECURSIVE ScanUnits(_, _, _, _)
\* lines 13-30: for (i, c) in chars.enumerate() { ... }; i is the index of Head(units)
ScanUnits(units, i, offset, st) ==
    IF units = <<>> THEN st
    ELSE LET c == Head(units) IN
         IF i < offset
         THEN IF c = "nl"
              THEN ScanUnits(Tail(units), i + 1, offset,
                             [line |-> st.line + 1, utf16_col |-> 1, last_line |-> <<>>])
              ELSE ScanUnits(Tail(units), i + 1, offset,
                             [st EXCEPT !.utf16_col = @ + 1, !.last_line = Append(@, c)])
         ELSE IF c = "nl"
              THEN st
              ELSE ScanUnits(Tail(units), i + 1, offset,
                             [st EXCEPT !.last_line = Append(@, c)])

RECURSIVE DecodeUtf16(_)
\* std::char::decode_utf16 (line 60), each result Ok(char) or Err(unpaired surrogate)
DecodeUtf16(units) ==
    IF units = <<>> THEN <<>>
    ELSE IF Head(units) = "hi"
         THEN IF Len(units) >= 2 /\ units[2] = "lo"
              THEN <<[ok |-> TRUE, v |-> "astral"]>>
                   \o DecodeUtf16(SubSeq(units, 3, Len(units)))
              ELSE <<[ok |-> FALSE, v |-> "hi"]>> \o DecodeUtf16(Tail(units))
         ELSE IF Head(units) = "lo"
              THEN <<[ok |-> FALSE, v |-> "lo"]>> \o DecodeUtf16(Tail(units))
              ELSE <<[ok |-> TRUE, v |-> Head(units)]>> \o DecodeUtf16(Tail(units))

\* line 49: String::from_utf16(to_cursor) is Ok
FromUtf16Ok(units) ==
    LET d == DecodeUtf16(units) IN \A k \in 1..Len(d) : d[k].ok

\* lines 74-82 counting one column per scalar value instead of its UTF-8 bytes
ColumnChars(results) == Len(results)

RECURSIVE ColumnBytes(_)
\* lines 74-82 (and to_cursor.len() of line 51): the bytes each decode result counts
ColumnBytes(results) ==
    IF results = <<>> THEN 0
    ELSE (IF Head(results).ok THEN LenUtf8(Head(results).v)
          ELSE IF UnitValue(Head(results).v) < 127 THEN 1 ELSE 2)
         + ColumnBytes(Tail(results))

\* lines 66-71: rposition(|r| r.is_ok()).map(|i| i + 1).unwrap_or(decode_results.len())
TrimTrailingErr(results) ==
    LET oks == {k \in 1..Len(results) : results[k].ok} IN
    SubSeq(results, 1,
           IF oks = {} THEN Len(results) ELSE CHOOSE k \in oks : \A j \in oks : j <= k)

\* lines 4-88 with the column taken from the offset, not from the units read
Utf16OffsetNoClamp(offset, text) ==
    LET st == ScanUnits(EncodeUtf16(text), 0, offset,
                        [line |-> 1, utf16_col |-> 1, last_line |-> <<>>])
        over == offset - Len(EncodeUtf16(text))
    IN  <<st.line,
          ColumnBytes(TrimTrailingErr(DecodeUtf16(SubSeq(st.last_line, 1, st.utf16_col - 1))))
          + 1 + (IF over > 0 THEN over ELSE 0)>>

\* utf16_offset_to_utf8_line_col, lines 4-88
Utf16OffsetToUtf8LineCol(offset, text) ==
    LET st == ScanUnits(EncodeUtf16(text), 0, offset,
                        [line |-> 1, utf16_col |-> 1, last_line |-> <<>>])
        to_cursor == SubSeq(st.last_line, 1, st.utf16_col - 1)
    IN  IF st.utf16_col = 1
        THEN <<st.line, 1>>
        ELSE IF FromUtf16Ok(to_cursor)
             THEN <<st.line, ColumnBytes(DecodeUtf16(to_cursor)) + 1>>
             ELSE <<st.line, ColumnBytes(TrimTrailingErr(DecodeUtf16(to_cursor))) + 1>>

\* the inputs of one call
CursorInit ==
    /\ curText \in SeqsUpTo(Chars, MaxTextLen)
    /\ curOffset \in 0..(2 * MaxTextLen + 1)
    /\ curResult = None

\* the call
Convert ==
    /\ curResult = None
    /\ curResult' = Some(Utf16OffsetToUtf8LineCol(curOffset, curText))
    /\ UNCHANGED <<curText, curOffset>>
    /\ UNCHANGED <<debounceVars, mirrorVars, sessionVars, editorVars, idleVars>>

\* no call in progress
CursorIdle == curText = <<>> /\ curOffset = 0 /\ curResult = None

----------------------------------------------------------------------------
(* server/file.rs *)

\* the mirrors (LocalFile values) of a run, and the names TempDir::new can
\* draw for their directories
Mirrors == {1, 2}
DirIds == {1, 2}

\* std::env::temp_dir(), the directory TempDir::new creates its directories in;
\* a path is <<directory, file name>>, the directory TmpRoot or one of DirIds
TmpRoot == 0

\* the texts, titles and urls of the edit requests (a text is a sequence of
\* characters, of which only the line break "nl" matters to the mirror)
FileTexts == SeqsUpTo({"nl"}, MaxFileTextLen)
Titles == SeqsUpTo({" "}, MaxTitleLen)
Urls == {"https://github.com/a/b", "https://example.org/"}

\* msg::GetTextFromComponent (server/msg.rs:25-31), without syntax and selections
Requests == [text : FileTexts, title : Titles, url : Urls]

\* what an editor can leave in a file: with or without a final line break
FileContents == SeqsUpTo({"nl"}, MaxFileTextLen + 1)

\* line 129: const BAD_CHARS
BAD_CHARS == {" ", "/", "\\", "\r", "\n", "\t"}

\* line 138: if title.len() > 16 { ... nth(16) ... }
TitleLimit == 16

\* lines 157-173: Url::parse(&msg.url) and source_url.host(): the labels of the
\* host if it is a domain, None if the url does not parse or has no domain host
HostDomain(url) ==
    CASE url = "https://github.com/a/b" -> Some(<<"github", "com">>)
      [] url = "https://gist.github.com/c" -> Some(<<"gist", "github", "com">>)
      [] url = "https://gitlab.com/a" -> Some(<<"gitlab", "com">>)
      [] url = "https://codeberg.org/a" -> Some(<<"codeberg", "org">>)
      [] url = "https://example.org/" -> Some(<<"example", "org">>)
      [] url = "http://127.0.0.1/" -> None
      [] OTHER -> None

\* determine_file_extension, lines 150-174
DetermineFileExtension(msg) ==
    LET host == HostDomain(msg.url) IN
    IF host = None THEN "txt"
    ELSE LET d == host[1]
             n == Len(d)
         IN  IF n >= 2 /\ <<d[n - 1], d[n]>> \in
                    {<<"github", "com">>, <<"gitlab", "com">>, <<"codeberg", "org">>}
             THEN "md"
             ELSE "txt"

\* get_filename, lines 128-148: <<stem, extension>> stands for stem + "." + extension
GetFilename(msg) ==
    LET title == IF Len(msg.title) > TitleLimit
                 THEN SubSeq(msg.title, 1, TitleLimit)
                 ELSE msg.title
        stem == IF msg.title = <<>>
                THEN <<"b", "u", "f", "f", "e", "r">>
                ELSE [i \in 1..Len(title) |->
                        IF title[i] \in BAD_CHARS THEN "-" ELSE title[i]]
    IN  <<stem, DetermineFileExtension(msg)>>

\* calculate_hash, lines 118-122: SHA-256, taken to be free of collisions
CalculateHash(text) == <<"sha256", text>>

\* lines 43-44: PathBuf::from(tempdir.path()) then path.set_file_name(..), which
\* replaces the last component of the path, the temporary directory's own name
MirrorPath(dir, msg) == <<TmpRoot, GetFilename(msg)>>

\* File::create and write_all on `path` at the present instant
WriteFile(files, path, content) ==
    (path :> [content |-> content, mtime |-> sysTime]) @@ files

\* get_last_modification, lines 124-126
GetLastModification(files, path) == files[path].mtime

\* update_local_md, lines 103-107
UpdateLocalMd(l, files, text) ==
    [l EXCEPT !.last_edit = GetLastModification(files, l.path),
              !.hash = CalculateHash(text)]

\* LocalFile::write, lines 82-90: the new files and the new LocalFile
MirrorWrite(l, files, msg) ==
    LET written == WriteFile(files, l.path, msg.text \o <<"nl">>) IN
    [files |-> written, l |-> UpdateLocalMd(l, written, msg.text)]

\* lines 109-115 comparing the hashes only
IsEquivalentHashOnly(l, files, msg) == CalculateHash(msg.text) = l.hash

\* LocalFile::is_equivalent, lines 109-115
IsEquivalent(l, files, msg) ==
    /\ l.last_edit = GetLastModification(files, l.path)
    /\ CalculateHash(msg.text) = l.hash

\* LocalFile::maybe_update, lines 63-72: the value returned (Ok(wrote)), the new
\* files and the new LocalFile
MirrorMaybeUpdate(l, files, msg) ==
    IF IsEquivalent(l, files, msg)
    THEN [wrote |-> FALSE, files |-> files, l |-> l]
    ELSE MirrorWrite(l, files, msg) @@ [wrote |-> TRUE]

\* lines 96-98: if text.ends_with('\n') { text.pop(); }
StripNewline(content) ==
    IF content # <<>> /\ content[Len(content)] = "nl"
    THEN SubSeq(content, 1, Len(content) - 1)
    ELSE content

\* LocalFile::read, lines 92-101: the text and the new LocalFile
MirrorRead(l, files) ==
    LET text == StripNewline(files[l.path].content) IN
    [text |-> text, l |-> UpdateLocalMd(l, files, text)]

\* Drop of TempDir (line 32: "deletes directory when dropped"): remove_dir_all
RemoveDirAll(files, dir) ==
    [p \in {q \in DOMAIN files : q[1] # dir} |-> files[p]]

\* TempDir::new (line 42): a directory of a name no existing directory has; the
\* names being interchangeable, the least free one
NewTempDir(dirs) == CHOOSE d \in DirIds \ dirs : \A e \in DirIds \ dirs : d <= e

NoMirror ==
    [state |-> "none", path |-> <<>>, tempdir |-> TmpRoot, last_edit |-> 0,
     hash |-> <<>>, drops |-> 0]

\* LocalFile::create, lines 41-57: the new directories, files and LocalFile
MirrorCreate(dirs, files, msg) ==
    LET dir == NewTempDir(dirs)
        l == [state |-> "alive", path |-> MirrorPath(dir, msg), tempdir |-> dir,
              last_edit |-> sysTime, hash |-> <<>>, drops |-> 0]
    IN  MirrorWrite(l, files, msg) @@ [dirs |-> dirs \cup {dir}]

\* the LocalFile after its fields are dropped, _tempdir among them
MirrorDropped(l) ==
    [NoMirror EXCEPT !.state = "dropped", !.path = l.path, !.tempdir = l.tempdir,
                     !.drops = l.drops + 1]

\* a call of LocalFile::create; the LocalFile values are numbered in the order
\* of their creation
Create(m, msg) ==
    /\ mirror[m].state = "none"
    /\ \A n \in Mirrors : n < m => mirror[n].state # "none"
    /\ DirIds \ fsDirs # {}
    /\ LET c == MirrorCreate(fsDirs, fsFiles, msg) IN
         /\ fsDirs' = c.dirs
         /\ fsFiles' = c.files
         /\ mirror' = [mirror EXCEPT ![m] = c.l]
    /\ ret' = None
    /\ UNCHANGED sysTime
    /\ UNCHANGED <<debounceVars, cursorVars, editorVars, idleVars, sessionVars>>

\* a call of LocalFile::maybe_update, lines 63-72
MaybeUpdate(m, msg) ==
    /\ mirror[m].state = "alive"
    /\ LET r == MirrorMaybeUpdate(mirror[m], fsFiles, msg) IN
       /\ fsFiles' = r.files
       /\ mirror' = [mirror EXCEPT ![m] = r.l]
       /\ ret' = Some([op |-> "maybe_update", m |-> m, text |-> msg.text,
                       val |-> r.wrote])
    /\ UNCHANGED <<fsDirs, sysTime>>
    /\ UNCHANGED <<debounceVars, cursorVars, editorVars, idleVars, sessionVars>>

\* LocalFile::get_current_contents, lines 59-61
GetCurrentContents(m) ==
    /\ mirror[m].state = "alive"
    /\ LET r == MirrorRead(mirror[m], fsFiles) IN
       /\ mirror' = [mirror EXCEPT ![m] = r.l]
       /\ ret' = Some([op |-> "get_current_contents", m |-> m, text |-> r.text,
                       val |-> TRUE])
    /\ UNCHANGED <<fsDirs, fsFiles, sysTime>>
    /\ UNCHANGED <<debounceVars, cursorVars, editorVars, idleVars, sessionVars>>

\* the LocalFile goes out of scope: its fields are dropped, _tempdir among them
DropMirror(m) ==
    /\ mirror[m].state = "alive"
    /\ fsDirs' = fsDirs \ {mirror[m].tempdir}
    /\ fsFiles' = RemoveDirAll(fsFiles, mirror[m].tempdir)
    /\ mirror' = [mirror EXCEPT ![m] = MirrorDropped(mirror[m])]
    /\ ret' = None
    /\ UNCHANGED sysTime
    /\ UNCHANGED <<debounceVars, cursorVars, editorVars, idleVars, sessionVars>>

\* the editor (or anything else) writes a file
EditorWrite(path, content) ==
    /\ path \in DOMAIN fsFiles
    /\ fsFiles' = WriteFile(fsFiles, path, content)
    /\ ret' = None
    /\ UNCHANGED <<fsDirs, sysTime, mirror>>
    /\ UNCHANGED <<debounceVars, cursorVars, editorVars, idleVars, sessionVars>>

\* the system clock advances
SysTick ==
    /\ sysTime < MaxSysTime
    /\ sysTime' = sysTime + 1
    /\ ret' = None
    /\ UNCHANGED <<fsDirs, fsFiles, mirror>>
    /\ UNCHANGED <<debounceVars, cursorVars, editorVars, idleVars, sessionVars>>

\* no mirror yet, an empty file system
MirrorInit ==
    /\ fsDirs = {}
    /\ fsFiles = <<>>
    /\ sysTime = 0
    /\ mirror = [m \in Mirrors |-> NoMirror]
    /\ ret = None

MirrorNext ==
    \/ \E m \in Mirrors, msg \in Requests : Create(m, msg)
    \/ \E m \in Mirrors, msg \in Requests : MaybeUpdate(m, msg)
    \/ \E m \in Mirrors : GetCurrentContents(m)
    \/ \E m \in Mirrors : DropMirror(m)
    \/ \E path \in DOMAIN fsFiles, content \in FileContents : EditorWrite(path, content)
    \/ SysTick

----------------------------------------------------------------------------
(* server.rs: handle_websocket *)

\* the connections of a run; session s keeps its file as mirror[s]
Sessions == Mirrors

\* the pending notifications an inotify event stream holds at most (successive
\* identical events are coalesced while unread)
MaxEvents == 1

\* process_title, lines 213-230
ProcessTitle(title) ==
    LET t == IF Len(title) > TitleLimit THEN SubSeq(title, 1, TitleLimit) ELSE title
        stem == IF title = <<>>
                THEN <<"b", "u", "f", "f", "e", "r">>
                ELSE [i \in 1..Len(t) |-> IF t[i] \in BAD_CHARS THEN "-" ELSE t[i]]
    IN  <<stem, "txt">>

\* get_new_path, lines 232-236: dir.join(file_name)
GetNewPath(dir, msg) == <<dir, ProcessTitle(msg.title)>>

\* init_file, lines 238-245: the text, and a line break unless it ends with one
InitFile(files, path, msg) ==
    WriteFile(files, path,
              IF msg.text # <<>> /\ msg.text[Len(msg.text)] = "nl"
              THEN msg.text
              ELSE msg.text \o <<"nl">>)

\* lines 152-155: TempDir::new, get_new_path, init_file; or LocalFile::create
SessionCreateFile(dirs, files, msg) ==
    IF mirrorKind = "LocalFile"
    THEN MirrorCreate(dirs, files, msg)
    ELSE LET dir == NewTempDir(dirs)
             l == [NoMirror EXCEPT !.state = "alive", !.path = GetNewPath(dir, msg),
                                   !.tempdir = dir]
         IN  [dirs |-> dirs \cup {dir}, files |-> InitFile(files, l.path, msg), l |-> l]

\* line 192: init_file on an update message; or LocalFile::maybe_update
SessionUpdateFile(l, files, msg) ==
    IF mirrorKind = "LocalFile"
    THEN MirrorMaybeUpdate(l, files, msg)
    ELSE [wrote |-> TRUE, files |-> InitFile(files, l.path, msg), l |-> l]

\* current_file_contents, lines 454-462; or LocalFile::get_current_contents
SessionReadFile(l, files) ==
    IF mirrorKind = "LocalFile"
    THEN MirrorRead(l, files)
    ELSE [text |-> StripNewline(files[l.path].content), l |-> l]

\* line 167: the inotify watch of the session's file is in place, and the file
\* at the path is still the one that is watched
Watching(s) == session[s].pc \in {"loop", "await_edit"} /\ session[s].watch

\* a write of `path`: every watch of that file gets an event
Notify(sess, path) ==
    [t \in Sessions |->
        IF Watching(t) /\ mirror[t].path = path /\ sess[t].events < MaxEvents
        THEN [sess[t] EXCEPT !.events = @ + 1]
        ELSE sess[t]]

\* the selections of a request (msg.rs:18-22, Vec<RangeInText>): none, or one
Selections == {<<>>, <<[start |-> 0, end |-> 0]>>}

\* msg::GetTextFromComponent (server/msg.rs:25-31) as handle_websocket reads it
EditRequests ==
    [text : FileTexts, title : Titles, url : {"https://example.org/"},
     selections : Selections]

\* msg::SetTextInComponent (msg.rs:12-16) as sent by session s
TextSnapshot(s, text, selections) == [s |-> s, text |-> text, selections |-> selections]

NoSession ==
    [pc |-> "idle", end |-> "none", editor |-> "unpolled", proc |-> "none",
     events |-> 0, rxOpen |-> TRUE, cursors |-> <<>>, watch |-> TRUE]

\* the task has returned `how`; its streams and futures are dropped. Dropping
\* the future of spawn_editor drops the Child, which leaves the process as it is
\* (the Command is built without kill_on_drop, lines 406-412)
Ended(how, old) ==
    [NoSession EXCEPT !.pc = "done", !.end = how, !.editor = "dropped",
                      !.proc = old.proc, !.rxOpen = FALSE]

\* lines 340-348: the permit is held from acquire to drop(lock)
HoldsPermit(s) == ~multi /\ session[s].editor = "running"

\* lines 75-79: thread_update_snd.send(ThreadStatus::Finished), the statement
\* that follows handle_websocket(..).await in the task of the connection
SendFinished(ch) == [ch EXCEPT !.finished = @ + 1]

\* lines 346-348 with the permit kept
PermitsAfterLeak(s) == single_access

\* lines 346-348: drop(lock), and the drop of the lock_and_spawn future: the
\* permits of the semaphore once session s has let go of what it holds
PermitsAfter(s) == IF HoldsPermit(s) THEN single_access + 1 ELSE single_access

\* how handle_websocket can return: Ok(()), or the error of one of its `?`
Returns == {"ok", "err"}

\* the task of session s ends with `how` (a value it returns, "panic" or
\* "cancelled"), having sent `msgs` in its last step: its locals are dropped,
\* the TempDir (or the LocalFile) and the semaphore permit among them
EndSession(s, how, msgs) ==
    /\ session' = [session EXCEPT ![s] = Ended(how, session[s])]
    /\ tx' = msgs
    /\ single_access' = PermitsAfter(s)
    /\ IF mirror[s].state = "alive"
       THEN /\ fsDirs' = fsDirs \ {mirror[s].tempdir}
            /\ fsFiles' = RemoveDirAll(fsFiles, mirror[s].tempdir)
            /\ mirror' = [mirror EXCEPT ![s] = MirrorDropped(mirror[s])]
       ELSE UNCHANGED <<fsDirs, fsFiles, mirror>>
    /\ thread_update' = IF how \in Returns
                        THEN SendFinished(thread_update)
                        ELSE thread_update
    /\ UNCHANGED <<sysTime, multi, mirrorKind, clients>>
    /\ UNCHANGED <<debounceVars, cursorVars, editorVars, idleVars>>

\* the task of session s ends, and not on its first message
EndSessionLater(s, how, msgs) == EndSession(s, how, msgs) /\ ret' = None

\* lines 59-72: ws.on_upgrade runs handle_websocket for a new connection
Connect(s) ==
    /\ session[s].pc = "idle"
    /\ s <= clients
    /\ \A t \in Sessions : t < s => session[t].pc # "idle"
    /\ session' = [session EXCEPT ![s].pc = "first"]
    /\ thread_update' = [thread_update EXCEPT !.started = @ + 1]
    /\ tx' = <<>>
    /\ UNCHANGED <<single_access, multi, mirrorKind, clients>>
    /\ UNCHANGED <<debounceVars, cursorVars, editorVars, idleVars, mirrorVars>>

\* line 138: what rx.next().await can be other than a text that parses: None
\* (the stream has ended), Some(Err(_)), a binary message, a close message, a
\* text that is no GetTextFromComponent
BadFirstMessages == {"closed", "error", "binary", "close", "badtext"}

\* lines 138-146 with every first message let through
FirstMessageErrorNone(what) == "ok"

\* lines 138-146: expect panics on None, `?` returns the websocket error, a
\* message that is not text bails, and a text that does not parse returns
FirstMessageError(what) == IF what = "closed" THEN "panic" ELSE "err"

\* lines 138-146: a first message that is not an edit request
RecvFirstBad(s, what) ==
    /\ session[s].pc = "first"
    /\ EndSession(s, FirstMessageError(what), <<>>)
    /\ ret' = Some([op |-> what, m |-> s, text |-> <<>>, val |-> FALSE])

\* lines 138-168: a first edit request; the file is created, then watched
\* (watch_file_edits can fail, and `?` returns)
RecvFirst(s, msg, watchOk) ==
    /\ session[s].pc = "first"
    /\ LET c == SessionCreateFile(fsDirs, fsFiles, msg) IN
         /\ fsDirs' = IF watchOk THEN c.dirs ELSE fsDirs
         /\ fsFiles' = IF watchOk THEN c.files ELSE RemoveDirAll(c.files, c.l.tempdir)
         /\ mirror' = [mirror EXCEPT ![s] = IF watchOk THEN c.l ELSE MirrorDropped(c.l)]
         /\ session' = [Notify(session, c.l.path) EXCEPT
                           ![s] = IF watchOk
                                  THEN [@ EXCEPT !.pc = "loop",
                                                 !.cursors = msg.selections]
                                  ELSE Ended("err", session[s])]
    /\ ret' = IF watchOk
              THEN Some([op |-> "write", m |-> s, text |-> msg.text, val |-> TRUE,
                         sel |-> msg.selections])
              ELSE None
    /\ thread_update' = IF watchOk THEN thread_update ELSE SendFinished(thread_update)
    /\ tx' = <<>>
    /\ UNCHANGED <<sysTime, single_access, multi, mirrorKind, clients>>
    /\ UNCHANGED <<debounceVars, cursorVars, editorVars, idleVars>>

\* lock_and_spawn, lines 334-351, up to the spawn of spawn_editor (line 410):
\* the permit is acquired unless options.multi; a failed spawn returns at once
SpawnEditor(s, ok) ==
    /\ session[s].pc = "loop"
    /\ session[s].editor = "unpolled"
    /\ multi \/ single_access > 0
    /\ session' = [session EXCEPT ![s].editor = IF ok THEN "running" ELSE "err",
                                  ![s].proc = IF ok THEN "running" ELSE "none"]
    /\ single_access' = IF ok /\ ~multi THEN single_access - 1 ELSE single_access
    /\ tx' = <<>>
    /\ UNCHANGED <<multi, mirrorKind, clients, thread_update>>
    /\ UNCHANGED <<debounceVars, cursorVars, editorVars, idleVars, mirrorVars>>

\* a file is put in the place of the one at `path` (rename): the watches of
\* that path (line 425, watcher.add_watch) stay with the file that was there,
\* and end with it
Unwatch(sess, path) ==
    [t \in Sessions |->
        IF Watching(t) /\ mirror[t].path = path
        THEN [sess[t] EXCEPT !.watch = FALSE]
        ELSE sess[t]]

\* the editor process saves the file it was given: it writes the file in
\* place, or it writes a new file and renames it to the path (the watch then
\* gives its last event, for the file that is no more: the stream of line 427
\* passes every event on)
EditorSaves(s, content, inPlace) ==
    /\ session[s].editor = "running"
    /\ session[s].proc = "running"
    /\ session[s].pc # "done"
    /\ fsFiles' = WriteFile(fsFiles, mirror[s].path, content)
    /\ session' = IF inPlace
                  THEN Notify(session, mirror[s].path)
                  ELSE Unwatch(Notify(session, mirror[s].path), mirror[s].path)
    /\ ret' = None
    /\ tx' = <<>>
    /\ UNCHANGED <<fsDirs, sysTime, mirror, single_access, multi, mirrorKind, clients, thread_update>>
    /\ UNCHANGED <<debounceVars, cursorVars, editorVars, idleVars>>

\* the exit statuses of an editor process: success, or not
ExitStatuses == {0, 1}

\* lines 416-420 with a status that is not success returned as an error
SpawnEditorResultStrict(status) == IF status = 0 THEN "ok" ELSE "err"

\* lines 416-420: a status that is not success is logged, and Ok(()) returned
SpawnEditorResult(status) == "ok"

\* lines 170-172: the select of the loop polls the editor future
PollsEditor(s) == session[s].pc = "loop" /\ session[s].editor = "running"

\* lines 410-420 and 346-348: the editor process exits with `status`; if the
\* session is at the select of its loop, the editor future is polled:
\* spawn_editor returns and the permit is dropped
EditorExit(s, status) ==
    /\ session[s].proc = "running"
    /\ session' = [session EXCEPT
                      ![s].proc = "exited",
                      ![s].editor = IF PollsEditor(s) THEN SpawnEditorResult(status) ELSE @]
    /\ single_access' = IF PollsEditor(s) THEN PermitsAfter(s) ELSE single_access
    /\ tx' = <<>>
    /\ ret' = IF PollsEditor(s)
              THEN Some([op |-> "exit", m |-> s, text |-> <<>>, val |-> status = 0])
              ELSE None
    /\ UNCHANGED <<fsDirs, fsFiles, sysTime, mirror, multi, mirrorKind, clients, thread_update>>
    /\ UNCHANGED <<debounceVars, cursorVars, editorVars, idleVars>>

\* lines 170-172, 410-420 and 346-348: the session is back at the select of its
\* loop after its editor has exited (with `status`): the editor future is
\* polled, spawn_editor returns and the permit is dropped
EditorPolled(s, status) ==
    /\ PollsEditor(s)
    /\ session[s].proc = "exited"
    /\ session' = [session EXCEPT ![s].editor = SpawnEditorResult(status)]
    /\ single_access' = PermitsAfter(s)
    /\ tx' = <<>>
    /\ ret' = Some([op |-> "exit", m |-> s, text |-> <<>>, val |-> status = 0])
    /\ UNCHANGED <<fsDirs, fsFiles, sysTime, mirror, multi, mirrorKind, clients, thread_update>>
    /\ UNCHANGED <<debounceVars, cursorVars, editorVars, idleVars>>

\* lines 435-452 with no selections in the message
CurrentFileSnapshotNoCursors(s) ==
    TextSnapshot(s, SessionReadFile(mirror[s], fsFiles).text, <<>>)

\* send_current_file_contents, lines 435-452: the message it sends
CurrentFileSnapshot(s) ==
    TextSnapshot(s, SessionReadFile(mirror[s], fsFiles).text, session[s].cursors)

\* lines 441-449: stream.send(..).await has returned an error to session s
SendFailed(s) == Some([op |-> "send", m |-> s, text |-> <<>>, val |-> FALSE])

\* lines 172-178 without the break when lock_and_spawn has returned an error
AfterEditorStrict(s, result, sendOk) ==
    IF result = "err" THEN [how |-> "err", msgs |-> <<>>]
    ELSE [how |-> IF sendOk THEN "ok" ELSE "err",
          msgs |-> IF sendOk THEN <<CurrentFileSnapshot(s)>> ELSE <<>>]

\* lines 172-178 and 207-210: whatever lock_and_spawn has returned (an error is
\* logged), the loop breaks and the file's text is sent once (the send can fail)
AfterEditor(s, result, sendOk) ==
    [how |-> IF sendOk THEN "ok" ELSE "err",
     msgs |-> IF sendOk THEN <<CurrentFileSnapshot(s)>> ELSE <<>>]

\* lines 172-178 and 207-210: the editor future is ready; then the directory
\* is dropped and handle_websocket returns
EditorClosed(s, sendOk) ==
    /\ session[s].pc = "loop"
    /\ session[s].editor \in {"ok", "err"}
    /\ LET a == AfterEditor(s, session[s].editor, sendOk) IN
         EndSession(s, a.how, a.msgs)
    /\ ret' = IF sendOk THEN None ELSE SendFailed(s)

\* lines 179-185 with the error of a send logged, and the loop going on
FileEventSendLogged(s, sendOk) ==
    /\ session[s].pc = "loop"
    /\ session[s].events > 0
    /\ session' = [session EXCEPT ![s].events = @ - 1]
    /\ tx' = IF sendOk THEN <<CurrentFileSnapshot(s)>> ELSE <<>>
    /\ mirror' = [mirror EXCEPT ![s] = SessionReadFile(mirror[s], fsFiles).l]
    /\ ret' = IF sendOk THEN None ELSE SendFailed(s)
    /\ UNCHANGED <<fsDirs, fsFiles, sysTime, single_access, multi, mirrorKind, clients, thread_update>>
    /\ UNCHANGED <<debounceVars, cursorVars, editorVars, idleVars>>

\* lines 179-185: an inotify event; the file's text is sent (the send can fail)
FileEvent(s, sendOk) ==
    /\ session[s].pc = "loop"
    /\ session[s].events > 0
    /\ IF sendOk
       THEN /\ session' = [session EXCEPT ![s].events = @ - 1]
            /\ tx' = <<CurrentFileSnapshot(s)>>
            /\ mirror' = [mirror EXCEPT ![s] = SessionReadFile(mirror[s], fsFiles).l]
            /\ ret' = None
            /\ UNCHANGED <<fsDirs, fsFiles, sysTime, single_access, multi, mirrorKind, clients, thread_update>>
            /\ UNCHANGED <<debounceVars, cursorVars, editorVars, idleVars>>
       ELSE EndSession(s, "err", <<>>) /\ ret' = SendFailed(s)

\* lines 186-196: an update message; the file is written, and the loop waits
\* for the notification of that write
RecvUpdate(s, msg) ==
    /\ session[s].pc = "loop"
    /\ session[s].rxOpen
    /\ LET u == SessionUpdateFile(mirror[s], fsFiles, msg)
           told == IF u.wrote THEN Notify(session, mirror[s].path) ELSE session
       IN  /\ fsFiles' = u.files
           /\ mirror' = [mirror EXCEPT ![s] = u.l]
           /\ session' = [told EXCEPT ![s].pc = IF u.wrote THEN "await_edit" ELSE "loop",
                                      ![s].cursors = msg.selections]
           /\ ret' = Some([op |-> "write", m |-> s, text |-> msg.text, val |-> u.wrote,
                           sel |-> msg.selections])
    /\ tx' = <<>>
    /\ UNCHANGED <<fsDirs, sysTime, single_access, multi, mirrorKind, clients, thread_update>>
    /\ UNCHANGED <<debounceVars, cursorVars, editorVars, idleVars>>

\* line 189 with the error of the parser logged, and the loop going on
RecvBadUpdateLogged(s) ==
    /\ session[s].pc = "loop"
    /\ session[s].rxOpen
    /\ ret' = Some([op |-> "badupdate", m |-> s, text |-> <<>>, val |-> FALSE])
    /\ tx' = <<>>
    /\ UNCHANGED <<fsDirs, fsFiles, sysTime, mirror>>
    /\ UNCHANGED <<session, single_access, multi, mirrorKind, clients, thread_update>>
    /\ UNCHANGED <<debounceVars, cursorVars, editorVars, idleVars>>

\* line 189: a text message that does not parse, `?` returns
RecvBadUpdate(s) ==
    /\ session[s].pc = "loop"
    /\ session[s].rxOpen
    /\ EndSession(s, "err", <<>>)
    /\ ret' = Some([op |-> "badupdate", m |-> s, text |-> <<>>, val |-> FALSE])

\* lines 186-188 and 199-201 with a message that is not text taken as an error
RecvOtherFatal(s) ==
    /\ session[s].pc = "loop"
    /\ session[s].rxOpen
    /\ EndSession(s, "err", <<>>)
    /\ ret' = Some([op |-> "other", m |-> s, text |-> <<>>, val |-> TRUE])

\* lines 186-188 and 199-201: a message that is not text, or a websocket
\* error: it is logged
RecvOther(s) ==
    /\ session[s].pc = "loop"
    /\ session[s].rxOpen
    /\ ret' = Some([op |-> "other", m |-> s, text |-> <<>>, val |-> TRUE])
    /\ tx' = <<>>
    /\ UNCHANGED <<fsDirs, fsFiles, sysTime, mirror>>
    /\ UNCHANGED <<session, single_access, multi, mirrorKind, clients, thread_update>>
    /\ UNCHANGED <<debounceVars, cursorVars, editorVars, idleVars>>

\* line 165: rx.fuse(), the websocket stream has ended
RxEnd(s) ==
    /\ session[s].pc = "loop"
    /\ session[s].rxOpen
    /\ session' = [session EXCEPT ![s].rxOpen = FALSE]
    /\ tx' = <<>>
    /\ UNCHANGED <<single_access, multi, mirrorKind, clients, thread_update>>
    /\ UNCHANGED <<debounceVars, cursorVars, editorVars, idleVars, mirrorVars>>

\* lines 193-197: edits.select_next_some().await, then continue
AwaitEdit(s) ==
    /\ session[s].pc = "await_edit"
    /\ session[s].events > 0
    /\ session' = [session EXCEPT ![s].events = @ - 1, ![s].pc = "loop"]
    /\ tx' = <<>>
    /\ UNCHANGED <<single_access, multi, mirrorKind, clients, thread_update>>
    /\ UNCHANGED <<debounceVars, cursorVars, editorVars, idleVars, mirrorVars>>

\* the task is dropped at one of its awaits (the runtime shuts down)
Cancel(s) ==
    /\ session[s].pc \in {"first", "loop", "await_edit"}
    /\ EndSessionLater(s, "cancelled", <<>>)

\* no connection yet
SessionIdle ==
    /\ session = [s \in Sessions |-> NoSession]
    /\ single_access = 1
    /\ multi = FALSE
    /\ mirrorKind = "inline"
    /\ clients = 1
    /\ thread_update = [started |-> 0, finished |-> 0]
    /\ tx = <<>>

\* line 50: Semaphore::new(1); options.multi is the user's
SessionInit ==
    /\ session = [s \in Sessions |-> NoSession]
    /\ single_access = 1
    /\ multi \in BOOLEAN
    /\ mirrorKind \in {"inline", "LocalFile"}
    /\ clients \in Sessions
    /\ thread_update = [started |-> 0, finished |-> 0]
    /\ tx = <<>>

SessionNext ==
    \/ \E s \in Sessions : Connect(s)
    \/ \E s \in Sessions, what \in BadFirstMessages : RecvFirstBad(s, what)
    \/ \E s \in Sessions, msg \in EditRequests, watchOk \in BOOLEAN :
          RecvFirst(s, msg, watchOk)
    \/ \E s \in Sessions, ok \in BOOLEAN : SpawnEditor(s, ok)
    \/ \E s \in Sessions, content \in FileContents, inPlace \in BOOLEAN :
          EditorSaves(s, content, inPlace)
    \/ \E s \in Sessions, status \in ExitStatuses : EditorExit(s, status)
    \/ \E s \in Sessions, status \in ExitStatuses : EditorPolled(s, status)
    \/ \E s \in Sessions, sendOk \in BOOLEAN : EditorClosed(s, sendOk)
    \/ \E s \in Sessions, sendOk \in BOOLEAN : FileEvent(s, sendOk)
    \/ \E s \in Sessions, msg \in EditRequests : RecvUpdate(s, msg)
    \/ \E s \in Sessions : RecvBadUpdate(s)
    \/ \E s \in Sessions : RecvOther(s)
    \/ \E s \in Sessions : RxEnd(s)
    \/ \E s \in Sessions : AwaitEdit(s)
    \/ \E s \in Sessions : Cancel(s)

----------------------------------------------------------------------------
(* server/editor.rs *)

\* A String is the sequence of the pieces of text it is the concatenation of:
\* a placeholder, a program name, a directory prefix that ends in a slash, a
\* number as to_string() writes it, or some other text without a '%' in it.
FILE == "%f"
LINE == "%l"
COLUMN == "%c"

MaxArgs == 2

DirPrefix == "/usr/bin/"

Atoms == {FILE, LINE, COLUMN, "vim", DirPrefix}

\* the tokens the editor setting may have after its first one
ArgTokens == SeqsUpTo(Atoms, 2) \ {<<>>}

Programs == {<<"vim">>, <<"cat">>, <<DirPrefix, "vim">>, <<FILE>>}

\* shell_words::split(&options.editor), once pieces.is_empty() has been refused
Commands == {<<p>> \o args : p \in Programs, args \in SeqsUpTo(ArgTokens, MaxArgs)}

\* file_path: the directory and the name that get_filename (file.rs:128-148)
\* makes of the title, which keeps a '%' of the title (BAD_CHARS has none)
FilePaths == {<<"/tmp/d/title.txt">>, <<"/tmp/d/", LINE, COLUMN, ".txt">>}

Cursors == {<<"1", "1">>, <<"3", "5">>}

\* s.contains(pattern)
Contains(source, pattern) == \E i \in 1..Len(source) : source[i] = pattern

\* source.find(pattern): the first place pattern is at
Find(source, pattern) ==
    IF Contains(source, pattern)
    THEN Some(CHOOSE i \in 1..Len(source) :
                 /\ source[i] = pattern
                 /\ \A j \in 1..(i - 1) : source[j] # pattern)
    ELSE None

ReplaceInPlace(source, pattern, replacement) ==
    LET found == Find(source, pattern) IN
    IF found = None
    THEN source
    ELSE SubSeq(source, 1, found[1] - 1) \o replacement
            \o SubSeq(source, found[1] + 1, Len(source))

KnownTemplate(name, file, line, col) ==
    CASE name \in {"vi", "vim", "nvim"} ->
            <<<<"+", line>>, <<"+norm! ", col, "|">>, file>>
      [] name \in {"emacs", "emacsclient", "gedit", "kak"} ->
            <<<<"+", line, ":", col>>, file>>
      [] name = "nano" -> <<<<"+", line, ",", col>>, file>>
      [] name \in {"joe", "ee"} -> <<<<"+", line>>, file>>
      [] name \in {"code", "code-oss"} ->
            <<<<"--goto">>, file \o <<":", line, ":", col>>, <<"--wait">>>>
      [] name = "subl" -> <<file \o <<":", line, ":", col>>, <<"--wait">>>>
      [] name = "micro" -> <<file, <<"+", line, ":", col>>>>

KnownEditors ==
    {"vi", "vim", "nvim", "emacs", "emacsclient", "gedit", "kak", "nano", "joe",
     "ee", "code", "code-oss", "subl", "micro"}

\* match editor { "vi" | "vim" | ... => ..., _ => return None }: the whole of
\* the string is what is matched
FormatKnownEditors(editor, file, line, col) ==
    IF Len(editor) = 1 /\ editor[1] \in KnownEditors
    THEN Some(KnownTemplate(editor[1], file, line, col))
    ELSE None

FallbackNothing(path) == <<>>

\* command.push(file_path.to_string())
Fallback(path) == <<path>>

PerformSubstitutions(cmd, path, line, col) ==
    IF \E k \in 2..Len(cmd) :
          Contains(cmd[k], FILE) \/ Contains(cmd[k], LINE) \/ Contains(cmd[k], COLUMN)
    THEN [k \in 1..Len(cmd) |->
            IF k = 1
            THEN cmd[k]
            ELSE ReplaceInPlace(ReplaceInPlace(ReplaceInPlace(cmd[k], FILE, path),
                                               LINE, <<line>>),
                                COLUMN, <<col>>)]
    ELSE LET editor == cmd[Len(cmd)]
             additions == FormatKnownEditors(editor, path, line, col)
         IN  IF additions # None
             THEN cmd \o additions[1]
             ELSE cmd \o Fallback(path)

\* shell_words::split(&options.editor): a setting of white space only gives
\* no token at all
SplitCommands == Commands \cup {<<>>}

\* lines 33-35 without the test
SplitResultAny(split) == "ok"

\* lines 33-35: if pieces.is_empty() { bail!("Empty editor command") }
SplitResult(split) == IF split = <<>> THEN "EmptyCommand" ELSE "ok"

EditorIdle ==
    /\ edCommand = <<<<"vim">>>>
    /\ edFile = <<"/tmp/d/title.txt">>
    /\ edCursor = <<"1", "1">>
    /\ pieces = None
    /\ edOutcome = "none"

EditorInit ==
    /\ edCommand \in SplitCommands
    /\ edFile \in FilePaths
    /\ edCursor \in Cursors
    /\ pieces = None
    /\ edOutcome = "none"

\* lines 33-35: spawn_editor returns the error, before any Command is built
BailEmpty ==
    /\ edOutcome = "none"
    /\ pieces = None
    /\ SplitResult(edCommand) = "EmptyCommand"
    /\ edOutcome' = "EmptyCommand"
    /\ UNCHANGED <<edCommand, edFile, edCursor, pieces>>
    /\ UNCHANGED <<debounceVars, cursorVars, mirrorVars, sessionVars, idleVars>>

\* spawn_editor, from the split of the setting to the tokens it runs (in
\* perform_substitutions, command[command.len() - 1] of no token panics)
Substitute ==
    /\ edOutcome = "none"
    /\ pieces = None
    /\ SplitResult(edCommand) = "ok"
    /\ IF edCommand = <<>>
       THEN pieces' = None /\ edOutcome' = "panic"
       ELSE /\ pieces' = Some(PerformSubstitutions(edCommand, edFile,
                                                   edCursor[1], edCursor[2]))
            /\ edOutcome' = edOutcome
    /\ UNCHANGED <<edCommand, edFile, edCursor>>
    /\ UNCHANGED <<debounceVars, cursorVars, mirrorVars, sessionVars, idleVars>>

\* lines 45-49: Command::new(program).args(args)...spawn()?
SpawnProcess(ok) ==
    /\ edOutcome = "none"
    /\ pieces # None
    /\ edOutcome' = IF ok THEN "spawned" ELSE "spawn_error"
    /\ UNCHANGED <<edCommand, edFile, edCursor, pieces>>
    /\ UNCHANGED <<debounceVars, cursorVars, mirrorVars, sessionVars, idleVars>>

EditorNext == BailEmpty \/ Substitute \/ (\E ok \in BOOLEAN : SpawnProcess(ok))

----------------------------------------------------------------------------
(* server.rs: idle_timeout *)

\* options.idle_timeout, in ticks of the clock
IdleDuration == 2

\* the connections of a run
MaxConnections == 3

Connections == 1..MaxConnections

\* line 477 with the timeout whatever the count
NeedsTimeoutAlways(count) == TRUE

\* line 477: if alive_count == 0, the next status is awaited with a timeout
NeedsTimeout(count) == count = 0

\* line 478 with a timeout that elapses at once
ElapsedAtOnce(timer, d) == timer # None

\* line 478: time::timeout(duration, ..) has elapsed
Elapsed(timer, d) == timer # None /\ timer[1] >= d

\* lines 476-481: a turn of the loop begins; a time::timeout is a new one
ArmTimer(count) == IF NeedsTimeout(count) THEN Some(0) ELSE None

\* lines 492-497 with Finished left out of the count
CountAfterStartedOnly(count, update) == IF update = "Started" THEN count + 1 ELSE count

\* lines 492-497
CountAfter(count, update) == IF update = "Started" THEN count + 1 ELSE count - 1

\* lines 64-68 and 74-78: thread_update_snd.send(status), if use_timeout; the
\* send fails (and is logged) once the receiver is dropped
SendStatus(c, status) ==
    IF idle_timeout # None /\ idleTask = "running"
    THEN /\ status_updater' = Append(status_updater, status)
         /\ status_from' = Append(status_from, c)
         /\ quiet' = 0
    ELSE UNCHANGED <<status_updater, status_from, quiet>>

\* lines 62-68: a connection is upgraded, its task starts
IdleSessionStart ==
    /\ conns.started < MaxConnections
    /\ conns' = [conns EXCEPT !.started = @ + 1]
    /\ connections' = [connections EXCEPT ![conns.started + 1].task = "running"]
    /\ SendStatus(conns.started + 1, "Started")
    /\ UNCHANGED <<idle_timeout, alive_count, idleTimer, idleTask, shutdowns, fired>>
    /\ UNCHANGED <<debounceVars, cursorVars, mirrorVars, sessionVars, editorVars>>

\* lines 70-78: handle_websocket has returned
IdleSessionEnd ==
    /\ conns.finished < conns.started
    /\ conns' = [conns EXCEPT !.finished = @ + 1]
    /\ \E c \in Connections :
          /\ connections[c].task = "running"
          /\ connections' = [connections EXCEPT ![c].task = "ended"]
          /\ SendStatus(c, "Finished")
    /\ UNCHANGED <<idle_timeout, alive_count, idleTimer, idleTask, shutdowns, fired>>
    /\ UNCHANGED <<debounceVars, cursorVars, mirrorVars, sessionVars, editorVars>>

\* lines 70-72: handle_websocket has panicked (line 138), or the task was
\* dropped: nothing is sent
IdleSessionLost ==
    /\ conns.finished < conns.started
    /\ conns' = [conns EXCEPT !.finished = @ + 1]
    /\ \E c \in Connections :
          /\ connections[c].task = "running"
          /\ connections' = [connections EXCEPT ![c].task = "ended"]
    /\ UNCHANGED <<idle_timeout, alive_count, status_updater, idleTimer, idleTask,
                   shutdowns, fired, quiet, status_from>>
    /\ UNCHANGED <<debounceVars, cursorVars, mirrorVars, sessionVars, editorVars>>

\* a tick of the clock
IdleTick ==
    /\ idleTask = "running"
    /\ (idleTimer # None /\ idleTimer[1] < IdleDuration) \/ quiet < IdleDuration
    /\ idleTimer' = IF idleTimer # None /\ idleTimer[1] < IdleDuration
                    THEN Some(idleTimer[1] + 1)
                    ELSE idleTimer
    /\ quiet' = IF quiet < IdleDuration THEN quiet + 1 ELSE quiet
    /\ UNCHANGED <<idle_timeout, alive_count, status_updater, idleTask, shutdowns,
                   fired, conns, connections, status_from>>
    /\ UNCHANGED <<debounceVars, cursorVars, mirrorVars, sessionVars, editorVars>>

\* lines 476-499: the task is woken and runs a turn of its loop. time::timeout
\* polls updater.next() first: a status that is there is taken (Finished is
\* sent after the Started of its task, so the count is positive when it comes);
\* else the timeout has elapsed, and the task returns, which is what
\* bind_with_graceful_shutdown (lines 106, 110) waits for. The senders live
\* in the routes of the server, so that updater.next() is never None.
IdlePoll ==
    /\ idleTask = "running"
    /\ IF status_updater # <<>>
       THEN /\ alive_count' = CountAfter(alive_count, Head(status_updater))
            /\ status_updater' = Tail(status_updater)
            /\ status_from' = Tail(status_from)
            /\ connections' = [connections EXCEPT
                                  ![Head(status_from)].received = Head(status_updater)]
            /\ idleTimer' = ArmTimer(alive_count')
            /\ UNCHANGED <<idleTask, shutdowns, fired>>
       ELSE /\ Elapsed(idleTimer, IdleDuration)
            /\ fired' = Some([count |-> alive_count, quiet |-> quiet])
            /\ idleTask' = "stopped"
            /\ shutdowns' = shutdowns + 1
            /\ idleTimer' = None
            /\ UNCHANGED <<alive_count, status_updater, status_from, connections>>
    /\ UNCHANGED <<idle_timeout, quiet, conns>>
    /\ UNCHANGED <<debounceVars, cursorVars, mirrorVars, sessionVars, editorVars>>

\* no idle timeout set: lines 113-120
IdleIdle ==
    /\ idle_timeout = None
    /\ alive_count = 0
    /\ status_updater = <<>>
    /\ idleTimer = None
    /\ idleTask = "none"
    /\ shutdowns = 0
    /\ fired = None
    /\ quiet = 0
    /\ conns = [started |-> 0, finished |-> 0]
    /\ connections = [c \in Connections |-> [task |-> "none", received |-> "none"]]
    /\ status_from = <<>>

\* lines 98-100 and 473-478: the task starts, with no session
IdleInit ==
    /\ idle_timeout \in {None, Some(IdleDuration)}
    /\ alive_count = 0
    /\ status_updater = <<>>
    /\ idleTimer = IF idle_timeout = None THEN None ELSE ArmTimer(0)
    /\ idleTask = IF idle_timeout = None THEN "none" ELSE "running"
    /\ shutdowns = 0
    /\ fired = None
    /\ quiet = 0
    /\ conns = [started |-> 0, finished |-> 0]
    /\ connections = [c \in Connections |-> [task |-> "none", received |-> "none"]]
    /\ status_from = <<>>

IdleNext == IdleSessionStart \/ IdleSessionEnd \/ IdleSessionLost \/ IdleTick \/ IdlePoll

----------------------------------------------------------------------------
(* Specifications *)

DebounceIdle == DebounceNew(0)

InitDebounce ==
    (\E wait \in {0, Wait} : DebounceNew(wait)) /\ CursorIdle /\ MirrorInit /\ SessionIdle /\ EditorIdle /\ IdleIdle

DebounceNext == PollNext \/ SourceItem \/ SourceEnd \/ Tick

SpecDebounce == InitDebounce /\ [][DebounceNext]_vars

\* the consumer keeps polling (the stream registers its wakers: source and timer)
SpecDebounceFair == SpecDebounce /\ WF_vars(PollNext)

InitCursor == CursorInit /\ DebounceIdle /\ MirrorInit /\ SessionIdle /\ EditorIdle /\ IdleIdle

SpecCursor == InitCursor /\ [][Convert]_vars

InitMirror == MirrorInit /\ DebounceIdle /\ CursorIdle /\ SessionIdle /\ EditorIdle /\ IdleIdle

SpecMirror == InitMirror /\ [][MirrorNext]_vars

InitSessions == SessionInit /\ MirrorInit /\ DebounceIdle /\ CursorIdle /\ EditorIdle /\ IdleIdle

\* a run with one connection
InitSession == InitSessions /\ clients = 1

SpecSession == InitSession /\ [][SessionNext]_vars

\* a run with two connections, of server.rs as it is (TempDir, get_new_path,
\* init_file) and without options.multi (with it, the sessions share nothing)
InitSessionPair == InitSessions /\ clients = 2 /\ mirrorKind = "inline" /\ ~multi

SpecSessionPair == InitSessionPair /\ [][SessionNext]_vars

InitEditor ==
    EditorInit /\ DebounceIdle /\ CursorIdle /\ MirrorInit /\ SessionIdle /\ IdleIdle

SpecEditor == InitEditor /\ [][EditorNext]_vars

InitIdle ==
    IdleInit /\ DebounceIdle /\ CursorIdle /\ MirrorInit /\ SessionIdle /\ EditorIdle

SpecIdle == InitIdle /\ [][IdleNext]_vars

\* the clock moves on, and the runtime polls a task that has been woken
SpecIdleFair == SpecIdle /\ WF_vars(IdleTick) /\ WF_vars(IdlePoll)

\* two sessions of server.rs, with what its runtime ensures: a spawned editor exits in the end, a notification
\* that is pending is delivered, the Semaphore hands a free permit to a
\* session that keeps asking for it, and the select of the loop takes the
\* editor future in the end when it is ready (the branch it runs is picked at
\* random among those that are ready)
SpecSessionFair ==
    /\ InitSessionPair
    /\ [][SessionNext]_vars
    /\ \A s \in Sessions :
          /\ WF_vars(\E status \in ExitStatuses : EditorExit(s, status))
          /\ WF_vars(AwaitEdit(s))
          /\ SF_vars(\E ok \in BOOLEAN : SpawnEditor(s, ok))
          /\ SF_vars(\E status \in ExitStatuses : EditorPolled(s, status))
          /\ SF_vars(\E sendOk \in BOOLEAN : EditorClosed(s, sendOk))

\* one session of server.rs, under the same conditions
SpecSessionOneFair ==
    /\ InitSession
    /\ [][SessionNext]_vars
    /\ \A s \in Sessions :
          /\ WF_vars(\E status \in ExitStatuses : EditorExit(s, status))
          /\ WF_vars(AwaitEdit(s))
          /\ SF_vars(\E ok \in BOOLEAN : SpawnEditor(s, ok))
          /\ SF_vars(\E status \in ExitStatuses : EditorPolled(s, status))
          /\ SF_vars(\E sendOk \in BOOLEAN : EditorClosed(s, sendOk))

----------------------------------------------------------------------------
(* Claims about the debounce operator *)

NumArrived == Len(arrivedAt)

\* the items that arrived so far form one burst that the source has not ended:
\* each arrived less than `duration` after the one before it
IsBurst ==
    /\ duration > 0
    /\ ~stream.done
    /\ \A i \in 2..NumArrived : arrivedAt[i] - arrivedAt[i - 1] < duration

\* C1: while the arrivals form one burst (each item less than `wait` after the
\* previous one), at most one item has been emitted; it is the newest item of
\* the burst and it was emitted no earlier than `wait` after that item arrived;
\* and once nothing is ready or buffered any more, it has been emitted (the
\* earlier items of the burst are dropped, the newest is not).
C1_BurstEmitsNewest ==
    IsBurst =>
        /\ Len(emitted) <= 1
        /\ \A k \in 1..Len(emitted) :
               /\ emitted[k].item = NumArrived
               /\ emitted[k].at >= arrivedAt[NumArrived] + duration
        /\ (NumArrived > 0 /\ stream.pending = <<>> /\ last = None) => emitted # <<>>

\* a burst of three items at three different instants, of which only the third came out
C1_Witness ==
    /\ IsBurst
    /\ NumArrived = 3
    /\ arrivedAt[1] < arrivedAt[2] /\ arrivedAt[2] < arrivedAt[3]
    /\ Len(emitted) = 1 /\ emitted[1].item = 3

\* C2: with wait = 0 nothing is ever buffered, every item taken from the source
\* was emitted by the poll that took it (so the items taken and the items
\* emitted are always the same sequence 1, 2, ... in source order), and when
\* the stream has ended the output is the whole source sequence.
C2_ZeroWaitPassesAll ==
    duration = 0 =>
        /\ last = None
        /\ Len(emitted) + Len(stream.pending) = NumArrived
        /\ \A k \in 1..Len(emitted) : emitted[k].item = k /\ emitted[k].by = "zero"
        /\ ended => Len(emitted) = NumArrived

\* a source of three items passed through whole, and ended
C2_Witness == duration = 0 /\ ended /\ Len(emitted) = 3 /\ emitted[3].item = 3

\* C3: a poll that finds the source completed while an item is buffered emits
\* the newest source item at once, whatever the deadline, and leaves nothing
\* buffered; a poll that finds the source completed and nothing buffered ends
\* the stream; so when the stream has ended after a non-empty source, the last
\* item emitted is the last source item.
C3_TrailingFlush ==
    /\ [](ended /\ NumArrived > 0 =>
            emitted # <<>> /\ emitted[Len(emitted)].item = NumArrived)
    /\ [][(PollNext /\ stream.done /\ duration > 0
                    /\ (last # None \/ stream.pending # <<>>)) =>
            /\ emitted' = Append(emitted, [item |-> NumArrived, at |-> now, by |-> "end"])
            /\ last' = None /\ stream'.pending = <<>>
            /\ ~ended']_vars
    /\ [][(PollNext /\ stream.done /\ stream.pending = <<>> /\ last = None) =>
            ended']_vars

\* the stream ended after flushing a buffered item before its deadline
C3_Witness ==
    /\ ended
    /\ emitted # <<>>
    /\ emitted[Len(emitted)].by = "end"
    /\ emitted[Len(emitted)].at < deadline

\* C4: the debounced stream returns end-of-stream only if the source has
\* completed, and if the source has completed then (the consumer polling on) it
\* eventually returns end-of-stream.
C4_FiniteIffSourceFinite ==
    /\ [](ended => stream.done)
    /\ (stream.done ~> ended)

\* a completed source whose debounced stream ended after emitting something
C4_Witness == stream.done /\ ended /\ NumArrived = 3 /\ emitted # <<>>

\* C33: whatever the polls, the arrivals and the passing of time, the items
\* emitted are source items in the order of the source, none of them twice;
\* and a poll that finds the source completed with nothing ready and nothing
\* buffered (the item was emitted when its deadline came) emits nothing and
\* ends the stream.
C33_OutputIsSubsequence ==
    /\ [](/\ \A k \in 1..Len(emitted) : emitted[k].item \in 1..NumArrived
          /\ \A j, k \in 1..Len(emitted) : j < k => emitted[j].item < emitted[k].item)
    /\ [][(PollNext /\ stream.done /\ stream.pending = <<>> /\ last = None) =>
            (emitted' = emitted /\ ended')]_vars

\* of three items one was dropped and two were emitted, the last one when its
\* deadline came; the source then completed and the stream ended
C33_Witness ==
    /\ ended
    /\ NumArrived = 3
    /\ Len(emitted) = 2
    /\ emitted[2].by = "timer"
    /\ emitted[2].item = 3

\* C34: a poll takes every item the source has ready, each one replacing the
\* buffered item and re-arming the deadline, before it looks at the deadline:
\* when an item is buffered, its deadline has come and the source has a newer
\* item ready, the poll emits nothing, buffers the newest item and arms the
\* deadline anew; the item that was buffered is dropped, and is not emitted.
C34_DrainBeforeDeadline ==
    /\ [][(PollNext /\ duration > 0) => stream'.pending = <<>>]_vars
    /\ [][(/\ PollNext
           /\ duration > 0
           /\ last # None
           /\ TimerElapsed(now, deadline)
           /\ stream.pending # <<>>) =>
            /\ \A k \in 1..Len(emitted') : emitted'[k].item # last[1]
            /\ ~stream.done =>
                  /\ emitted' = emitted
                  /\ last' = Some(stream.pending[Len(stream.pending)])
                  /\ deadline' = now + duration]_vars
    /\ []((/\ polled # None
           /\ duration > 0
           /\ polled[1].last # None
           /\ polled[1].ready # <<>>) =>
            \A k \in 1..Len(emitted) : emitted[k].item # polled[1].last[1])

\* the last poll has found an item buffered, its deadline passed, and a newer
\* item ready: nothing was emitted, and the newer item is the one buffered
C34_Witness ==
    /\ polled # None
    /\ duration > 0
    /\ polled[1].last # None
    /\ polled[1].overdue
    /\ polled[1].ready # <<>>
    /\ ~polled[1].done
    /\ emitted = <<>>
    /\ last = Some(NumArrived)
    /\ last # polled[1].last

----------------------------------------------------------------------------
(* Claims about the cursor mapper *)

RECURSIVE Utf16Units(_)
\* the number of UTF-16 code units of a text: 2 for a scalar value >= U+10000
Utf16Units(text) ==
    IF text = <<>> THEN 0
    ELSE (IF Head(text) = "astral" THEN 2 ELSE 1) + Utf16Units(Tail(text))

RECURSIVE Utf8Bytes(_)
\* the number of UTF-8 bytes of a text
Utf8Bytes(text) ==
    IF text = <<>> THEN 0
    ELSE (CASE Head(text) \in {"a", "nl"} -> 1 [] Head(text) = "e2" -> 2
            [] Head(text) = "e3" -> 3 [] Head(text) = "astral" -> 4)
         + Utf8Bytes(Tail(text))

\* the reference position after the characters of `prefix`
RefLine(prefix) == 1 + Cardinality({i \in 1..Len(prefix) : prefix[i] = "nl"})
RefCol(prefix) ==
    LET nls == {i \in 1..Len(prefix) : prefix[i] = "nl"}
        start == IF nls = {} THEN 0 ELSE CHOOSE i \in nls : \A j \in nls : j <= i
    IN  1 + Utf8Bytes(SubSeq(prefix, start + 1, Len(prefix)))

\* the prefixes of the text that end at UTF-16 offset `offset` (one, on a
\* character boundary; none, inside a surrogate pair or past the end)
PrefixesAt(text, offset) ==
    {k \in 0..Len(text) : Utf16Units(SubSeq(text, 1, k)) = offset}

\* `offset` is that of the second code unit of a surrogate pair of the text
InsidePair(text, offset) ==
    \E k \in 1..Len(text) :
        text[k] = "astral" /\ offset = Utf16Units(SubSeq(text, 1, k - 1)) + 1

\* C5: for an offset strictly inside a surrogate pair the result is that of
\* the offset of the pair's first code unit (the start of the character).
C5_InsidePairIsStart ==
    (curResult # None /\ InsidePair(curText, curOffset)) =>
        curResult = Some(Utf16OffsetToUtf8LineCol(curOffset - 1, curText))

\* C6: for an offset on a character boundary within the text, the line is 1 plus
\* the number of line breaks before the offset and the column is 1 plus the
\* UTF-8 byte length of the characters between the start of that line and the
\* offset.
C6_ReferencePosition ==
    curResult # None =>
        \A k \in PrefixesAt(curText, curOffset) :
            curResult = Some(<<RefLine(SubSeq(curText, 1, k)),
                               RefCol(SubSeq(curText, 1, k))>>)

\* a boundary offset on a second line, after a character of several bytes
C6_Witness ==
    /\ curResult = Some(<<2, 4>>)
    /\ PrefixesAt(curText, curOffset) # {}
    /\ curText[Len(curText)] \in {"a", "astral"}

\* C7: for an offset greater than the text's UTF-16 length the result is that
\* of the offset equal to that length, the position after the last character.
C7_ClampToEnd ==
    (curResult # None /\ curOffset > Utf16Units(curText)) =>
        /\ curResult = Some(Utf16OffsetToUtf8LineCol(Utf16Units(curText), curText))
        /\ curResult = Some(<<RefLine(curText), RefCol(curText)>>)

\* an offset two past the end of a text of two lines
C7_Witness ==
    /\ curResult # None
    /\ curOffset = Utf16Units(curText) + 2
    /\ Len(curText) = 3 /\ curText[2] = "nl"

----------------------------------------------------------------------------
(* Claims about the local file mirror *)

C9_OwnDirectoryDistinctPaths ==
    /\ [](\A m \in Mirrors :
            mirror[m].state = "alive" =>
                /\ mirror[m].path[1] = mirror[m].tempdir
                /\ \A n \in Mirrors \ {m} :
                       mirror[n].state = "alive" => mirror[n].path # mirror[m].path)
    /\ [][\A m \in Mirrors :
            mirror[m].state = "alive" /\ mirror'[m].state = "alive" =>
                mirror'[m].path = mirror[m].path]_vars

----------------------------------------------------------------------------
(* Claims about the session *)

\* C10: however a session that created a mirror ends (after the editor has
\* exited, on a fatal error, or cancelled), the mirror's temporary directory
\* and file are deleted exactly once: when the session's task has ended the
\* mirror is no longer alive, it was dropped once, and neither its directory
\* nor its file exists.
C10_MirrorDestroyedOnEveryExit ==
    /\ [](\A s \in Sessions : session[s].pc = "done" => mirror[s].state # "alive")
    /\ [][\A s \in Sessions :
            (session[s].pc # "done" /\ session'[s].pc = "done"
                /\ mirror'[s].state = "dropped") =>
                /\ mirror'[s].drops = 1
                /\ mirror'[s].tempdir \notin fsDirs'
                /\ mirror'[s].path \notin DOMAIN fsFiles']_vars


\* C11: a text written to the mirror (when the session creates its file, or
\* by an update that writes), the empty text and a text that ends with a line
\* break included, is the text that reading the mirror returns, as long as
\* nothing else has written the file in between.
C11_WriteReadRoundTrip ==
    (ret # None /\ ret[1].op = "write" /\ ret[1].val) =>
        SessionReadFile(mirror[ret[1].m], fsFiles).text = ret[1].text


\* the sessions whose editor process has been spawned and has not exited
EditorsAlive == {s \in Sessions : session[s].proc = "running"}

\* C12: unless options.multi is set, at every moment at most one session of
\* the process has a spawned editor process that has not exited.
C12_SingleInstanceExclusion == ~multi => Cardinality(EditorsAlive) <= 1


\* session s is in its loop and has not got the permit it needs for its editor
WaitsForPermit(s) ==
    /\ ~multi
    /\ session[s].pc \in {"loop", "await_edit"}
    /\ session[s].editor = "unpolled"

\* the sessions whose lock_and_spawn holds the permit
PermitHolders == {s \in Sessions : HoldsPermit(s)}

\* C13: the permit never leaks: the permits of the semaphore and the sessions
\* that hold one always add up to one (it is back after the editor has exited,
\* after a spawn that failed, and after a session that held it has ended or
\* was dropped); so, every spawned editor exiting in the end, a session that
\* waits for the permit gets it, unless it ends first.
C13_PermitNeverLeaks ==
    /\ [](~multi => single_access + Cardinality(PermitHolders) = 1)
    /\ \A s \in Sessions : WaitsForPermit(s) ~> ~WaitsForPermit(s)

\* a session has got the permit after another one, which had held it, has ended
C13_Witness ==
    \E s, t \in Sessions :
        /\ HoldsPermit(s)
        /\ session[t].pc = "done" /\ session[t].proc # "none"


\* idle_timeout, lines 469-500: alive_count once the channel has been read
AliveCount == thread_update.started - thread_update.finished

\* C14: a session that has sent Started sends Finished exactly once however it
\* ends (a fatal error, a connection that ends before its first message, the
\* task being dropped): when every session that has started has ended, the
\* count of the idle counter is back at zero.
C14_StartedThenFinished ==
    (\A s \in Sessions : session[s].pc \in {"idle", "done"}) => AliveCount = 0


\* a session that has ended and has no editor process left stays as it is
DoneIsFinal ==
    \A s \in Sessions :
        (session[s].pc = "done" /\ session[s].proc # "running") =>
            (session'[s] = session[s] /\ mirror'[s] = mirror[s])

\* what is sent on a websocket is sent by a session that is in its loop
OnlyActiveSessionsSend ==
    \A k \in 1..Len(tx') : session[tx'[k].s].pc = "loop"

\* C15: a first message that is not text (binary, close) or is a text that
\* does not parse ends the session with an error before it is active: no file
\* is created for it, no editor is spawned, nothing is sent, and nothing is
\* sent on that connection afterwards.
C15_InitProtocolError ==
    /\ []((ret # None /\ ret[1].op \in {"binary", "close", "badtext"}) =>
            /\ session[ret[1].m].pc = "done"
            /\ session[ret[1].m].end = "err"
            /\ session[ret[1].m].proc = "none"
            /\ mirror[ret[1].m].state = "none"
            /\ tx = <<>>)
    /\ [][DoneIsFinal /\ OnlyActiveSessionsSend]_vars

\* a session has just refused a first text that does not parse, while the
\* other session is in its loop
C15_Witness ==
    /\ ret # None /\ ret[1].op = "badtext"
    /\ \E t \in Sessions : session[t].pc = "loop"

\* the text read from the file of session s, and its last-known selections
FinalSnapshot(s) ==
    [s |-> s, text |-> StripNewline(fsFiles[mirror[s].path].content),
     selections |-> session[s].cursors]

\* C16: when the editor has completed, the session sends exactly one
\* TextSnapshot, with the text of its file at that time and the selections of
\* the request it has handled last, and ends; it sends nothing after it.
C16_ClosedTransition ==
    /\ []((ret # None /\ ret[1].op = "write") =>
            session[ret[1].m].cursors = ret[1].sel)
    /\ [][\A s \in Sessions :
            EditorClosed(s, TRUE) =>
                /\ tx' = <<FinalSnapshot(s)>>
                /\ session'[s].pc = "done"
                /\ session'[s].end = "ok"]_vars
    /\ [][OnlyActiveSessionsSend]_vars

\* a session has ended with Ok and its last step has sent a snapshot with a
\* text that is not empty and with a selection
C16_Witness ==
    /\ Len(tx) = 1
    /\ session[tx[1].s].pc = "done" /\ session[tx[1].s].end = "ok"
    /\ tx[1].text # <<>> /\ tx[1].selections # <<>>

\* C17: an exit status that is not success is no failure of the launcher:
\* whatever status the editor exits with, lock_and_spawn returns Ok, and the
\* session then sends the final TextSnapshot and ends with Ok.
C17_NonZeroExitIsNoFailure ==
    /\ []((ret # None /\ ret[1].op = "exit" /\ session[ret[1].m].pc # "done") =>
            session[ret[1].m].editor = "ok")
    /\ [][\A s \in Sessions :
            (session[s].editor = "ok" /\ EditorClosed(s, TRUE)) =>
                (tx' = <<FinalSnapshot(s)>> /\ session'[s].end = "ok")]_vars

\* the editor of a running session has just exited with a status that is not
\* success, and lock_and_spawn has returned Ok
C17_Witness ==
    /\ ret # None /\ ret[1].op = "exit" /\ ~ret[1].val
    /\ session[ret[1].m].pc = "loop" /\ session[ret[1].m].editor = "ok"

\* the steps of the loop of session s that handle something other than the
\* editor: a file event, an update message, a message that is not text, the
\* end of the websocket stream
HandlesInLoop(s) ==
    \/ FileEvent(s, TRUE)
    \/ \E msg \in EditRequests : RecvUpdate(s, msg)
    \/ RecvOther(s)
    \/ RxEnd(s)

\* C24: a session breaks out of its loop to the final snapshot only when its
\* editor process has completed; handling a file event, an update message or
\* a message that is not text keeps it in the loop, and so does the end of
\* the websocket stream.
C24_LoopExitOnlyOnEditor ==
    /\ [](\A s \in Sessions : session[s].end = "ok" => session[s].proc = "exited")
    /\ [][\A s \in Sessions :
            HandlesInLoop(s) => session'[s].pc \in {"loop", "await_edit"}]_vars

\* C25: the wait for the notification of the session's own write ends, with
\* or without a notification, and the session is back in its loop; so a
\* session whose editor process has exited ends in the end.
C25_AwaitEditBounded ==
    \A s \in Sessions :
        /\ (session[s].pc = "await_edit") ~> (session[s].pc # "await_edit")
        /\ (session[s].proc = "exited") ~> (session[s].pc = "done")

\* session s has just sent the text of its file to the browser, and `msg`
\* brings that text back
Echoes(s, msg) ==
    /\ session[s].pc = "loop"
    /\ tx = <<CurrentFileSnapshot(s)>>
    /\ msg.text = tx[1].text

\* C26: an update message that brings back the text that the session has just
\* sent writes no file, so that no notification follows it and no TextSnapshot
\* is sent for it: the session stays in its loop with the events it had.
C26_EchoWritesNothing ==
    [][\A s \in Sessions, msg \in EditRequests :
            (Echoes(s, msg) /\ RecvUpdate(s, msg)) =>
                /\ ~ret'[1].val
                /\ fsFiles' = fsFiles
                /\ session'[s].pc = "loop"
                /\ session'[s].events = session[s].events
                /\ tx' = <<>>]_vars

\* the session is in its loop, before and after the step
StaysActive(s) ==
    /\ session[s].pc \in {"loop", "await_edit"}
    /\ session'[s].pc \in {"loop", "await_edit"}

\* C28: a file event that is handled sends one TextSnapshot: its text is what
\* the file holds then, less one final line break, and its selections are
\* those of the last request handled (the first one, or an update message);
\* nothing else changes the selections of a session in its loop, a save of
\* the editor least of all.
C28_SnapshotOnFileEvent ==
    [][\A s \in Sessions :
         /\ FileEvent(s, TRUE) =>
               LET c == fsFiles[mirror[s].path].content IN
               /\ Len(tx') = 1
               /\ tx'[1].s = s
               /\ tx'[1].text = IF c # <<>> /\ c[Len(c)] = "nl"
                                THEN SubSeq(c, 1, Len(c) - 1)
                                ELSE c
               /\ tx'[1].selections = session[s].cursors
               /\ session'[s].cursors = session[s].cursors
         /\ \A msg \in EditRequests :
               /\ (\E watchOk \in BOOLEAN : RecvFirst(s, msg, watchOk)) /\ session'[s].pc = "loop"
                     => session'[s].cursors = msg.selections
               /\ RecvUpdate(s, msg) => session'[s].cursors = msg.selections
         /\ (/\ StaysActive(s)
             /\ ~ \E msg \in EditRequests : RecvUpdate(s, msg))
               => session'[s].cursors = session[s].cursors]_vars

\* a snapshot with selections and text has been sent for a file event
C28_Witness ==
    \E s \in Sessions :
        /\ session[s].pc = "loop"
        /\ tx # <<>>
        /\ tx[1].s = s
        /\ tx[1].selections # <<>>
        /\ tx[1].text # <<>>
        /\ session[s].cursors = tx[1].selections

\* C27: an editor that cannot be started is a fatal error of the session: the
\* task ends with an error, and sends no final TextSnapshot.
C27_SpawnFailureIsFatal ==
    [][\A s \in Sessions, sendOk \in BOOLEAN :
            (session[s].editor = "err" /\ EditorClosed(s, sendOk)) =>
                (session'[s].end = "err" /\ tx' = <<>>)]_vars

\* C29: an update message whose text does not parse ends the session with an
\* error: no TextSnapshot is sent, no file is written for it, and the mirror
\* is dropped with its directory and all that is in it.
C29_BadUpdateIsFatal ==
    [][\A s \in Sessions :
            RecvBadUpdate(s) =>
                /\ session'[s].pc = "done"
                /\ session'[s].end = "err"
                /\ tx' = <<>>
                /\ mirror'[s].state = "dropped"
                /\ mirror'[s].tempdir \notin fsDirs'
                /\ \A p \in DOMAIN fsFiles' :
                      /\ p[1] # mirror[s].tempdir
                      /\ fsFiles'[p] = fsFiles[p]
                /\ \A p \in DOMAIN fsFiles :
                      p[1] # mirror[s].tempdir => p \in DOMAIN fsFiles'
                /\ \A t \in Sessions \ {s} : session'[t] = session[t]]_vars

\* a session with a running editor has ended on an update message that does
\* not parse
C29_Witness ==
    /\ ret # None
    /\ ret[1].op = "badupdate"
    /\ session[ret[1].m].end = "err"
    /\ session[ret[1].m].proc = "running"
    /\ mirror[ret[1].m].state = "dropped"

\* C30: a message that is not text, received by a session in its loop, is
\* ignored: the session stays in its loop with the selections it had, no
\* file and no mirror changes (the hash and the modification time it has
\* recorded included), and nothing is sent.
C30_NonTextIgnored ==
    [][\A s \in Sessions :
            RecvOther(s) =>
                /\ session'[s].pc = "loop"
                /\ session'[s].cursors = session[s].cursors
                /\ session' = session
                /\ fsFiles' = fsFiles
                /\ fsDirs' = fsDirs
                /\ mirror' = mirror
                /\ single_access' = single_access
                /\ tx' = <<>>]_vars

\* a session with a running editor and a selection has just ignored a message
\* that is not text
C30_Witness ==
    /\ ret # None
    /\ ret[1].op = "other"
    /\ tx = <<>>
    /\ session[ret[1].m].pc = "loop"
    /\ session[ret[1].m].editor = "running"
    /\ session[ret[1].m].cursors # <<>>
    /\ mirror[ret[1].m].state = "alive"

\* C31: a send that fails, of the snapshot for a file event or of the final
\* snapshot, ends the session with an error: nothing is sent in that step nor
\* by that session afterwards, and the mirror is dropped with its directory
\* and all that is in it.
C31_SendFailureIsFatal ==
    /\ [][\A s \in Sessions :
            (FileEvent(s, FALSE) \/ EditorClosed(s, FALSE)) =>
                /\ session'[s].pc = "done"
                /\ session'[s].end = "err"
                /\ tx' = <<>>
                /\ mirror'[s].state = "dropped"
                /\ mirror'[s].tempdir \notin fsDirs'
                /\ \A p \in DOMAIN fsFiles' : p[1] # mirror[s].tempdir]_vars
    /\ [][\A k \in 1..Len(tx') : session[tx'[k].s].end = "none"]_vars

\* the send of the snapshot for a file event has failed, while the editor runs
C31_Witness ==
    /\ ret # None
    /\ ret[1].op = "send"
    /\ session[ret[1].m].end = "err"
    /\ session[ret[1].m].proc = "running"
    /\ mirror[ret[1].m].state = "dropped"

----------------------------------------------------------------------------
(* Claims about the editor command line *)

HasPlaceholder(cmd) ==
    \E k \in 2..Len(cmd) : \E p \in {FILE, LINE, COLUMN} : Contains(cmd[k], p)

RECURSIVE Concat(_)
\* the strings of a sequence, one after the other
Concat(strings) ==
    IF strings = <<>> THEN <<>> ELSE Head(strings) \o Concat(Tail(strings))

\* every occurrence of a placeholder in source replaced by what it stands for
ReplaceEvery(source, file, line, col) ==
    Concat([i \in 1..Len(source) |->
               CASE source[i] = FILE -> file
                 [] source[i] = LINE -> <<line>>
                 [] source[i] = COLUMN -> <<col>>
                 [] OTHER -> <<source[i]>>])

AllReplaced(source) == ReplaceEvery(source, edFile, edCursor[1], edCursor[2])

\* the last path component of a token
BaseName(token) ==
    IF Contains(token, DirPrefix)
    THEN LET last_dir == CHOOSE i \in 1..Len(token) :
                            /\ token[i] = DirPrefix
                            /\ \A j \in (i + 1)..Len(token) : token[j] # DirPrefix
         IN  SubSeq(token, last_dir + 1, Len(token))
    ELSE token

IsKnownEditor(token) == Len(BaseName(token)) = 1 /\ BaseName(token)[1] \in KnownEditors

\* C18: when a token after the first contains %f, %l or %c, the call leaves
\* the number of tokens and the first token as they were, and every later
\* token with every occurrence of %f, %l and %c in it replaced by the file
\* path, the line and the column (a token that has the same placeholder more
\* than once included).
C18_PlaceholderPass ==
    (pieces # None /\ HasPlaceholder(edCommand)) =>
        /\ Len(pieces[1]) = Len(edCommand)
        /\ pieces[1][1] = edCommand[1]
        /\ \A k \in 2..Len(edCommand) : pieces[1][k] = AllReplaced(edCommand[k])

\* C19: when no later token contains a placeholder and the base name of the
\* last token is in the table of known editors, the call appends that
\* editor's arguments to the tokens (for vim: +<line>, +norm! <col>|, the
\* file path) and does not append the file path of the fallback.
C19_KnownEditorPass ==
    (pieces # None /\ ~HasPlaceholder(edCommand)
        /\ IsKnownEditor(edCommand[Len(edCommand)])) =>
        pieces[1] = edCommand \o KnownTemplate(BaseName(edCommand[Len(edCommand)])[1],
                                               edFile, edCursor[1], edCursor[2])

\* C20: when no later token contains a placeholder and the last token is not
\* a known editor, the call leaves the tokens as they were and appends the
\* file path to them, once.
C20_Fallback ==
    (pieces # None /\ ~HasPlaceholder(edCommand)
        /\ ~IsKnownEditor(edCommand[Len(edCommand)])) =>
        pieces[1] = Append(edCommand, edFile)

\* the fallback has acted on a command with arguments, none a known editor
C20_Witness ==
    /\ pieces # None
    /\ Len(edCommand) > 1
    /\ ~HasPlaceholder(edCommand)
    /\ ~IsKnownEditor(edCommand[Len(edCommand)])
    /\ pieces[1][Len(pieces[1])] = edFile

\* C21: a setting that splits into no token makes spawn_editor return the
\* EmptyCommand error, with no substitution made and no process started.
C21_EmptyCommand ==
    /\ edCommand = <<>> => (edOutcome \in {"none", "EmptyCommand"} /\ pieces = None)
    /\ edOutcome = "EmptyCommand" => edCommand = <<>>
    /\ edOutcome \in {"spawned", "spawn_error"} => (pieces # None /\ edCommand # <<>>)

\* spawn_editor has returned on a setting without a token
C21_Witness == edCommand = <<>> /\ edOutcome = "EmptyCommand"

\* sub is in source, in one piece
ContainsString(source, sub) ==
    \E i \in 0..(Len(source) - Len(sub)) : SubSeq(source, i + 1, i + Len(sub)) = sub

\* C35: whatever the title the file is named after, a later token of the
\* setting that has %f in it becomes an argument with the file path in it,
\* character for character: the substitution of %l and %c leaves what was put
\* in for %f as it is, a file name with %l or %c in it included.
C35_PathVerbatim ==
    pieces # None =>
        \A k \in 2..Len(edCommand) :
            Contains(edCommand[k], FILE) => ContainsString(pieces[1][k], edFile)

----------------------------------------------------------------------------
(* Claims about the idle shutdown task *)

\* C22: with an idle timeout set, graceful shutdown is triggered at most once,
\* and the task has stopped exactly when it was triggered; the timeout
\* elapses only when no status has been sent for the whole idle duration and
\* none is waiting (a status sent earlier than that prevents it, and the
\* whole duration is waited each time the count is back at zero); once the
\* task has stopped it counts no more; and while the count is zero the task
\* goes on to stop, unless a status comes and makes the count positive.
C22_IdleShutdown ==
    /\ [](/\ shutdowns <= 1
          /\ (idleTask = "stopped") <=> (shutdowns = 1)
          /\ (idleTask = "stopped") <=> (fired # None)
          /\ fired # None => fired[1].quiet >= IdleDuration
          /\ idleTask = "stopped" => status_updater = <<>>)
    /\ [][idleTask = "stopped" => UNCHANGED <<alive_count, idleTask, shutdowns, fired>>]_vars
    /\ ((idleTask = "running" /\ alive_count = 0)
            ~> (idleTask = "stopped" \/ alive_count > 0))

\* shutdown was triggered after a session has come and gone
C22_Witness ==
    /\ fired # None
    /\ fired[1].quiet = IdleDuration
    /\ conns.started > 0
    /\ conns.finished = conns.started

\* C23: the timeout of the idle task elapses only while its count of the
\* sessions is zero: a timeout is pending only then, and so shutdown is
\* triggered by it only then.
C23_NoShutdownWhileActive ==
    /\ idleTimer # None => alive_count = 0
    /\ fired # None => fired[1].count = 0
    /\ idleTask = "stopped" => alive_count = 0

\* the count is positive, and nothing has been sent for the idle duration
C23_Witness ==
    /\ idleTask = "running"
    /\ alive_count > 0
    /\ status_updater = <<>>
    /\ quiet = IdleDuration

\* the connections whose Started the idle task has received, and whose
\* Finished it has not
CountedSessions == {c \in Connections : connections[c].received = "Started"}

\* C32: however the Started and Finished of concurrent sessions interleave,
\* the count of the idle task is never negative and is the number of the
\* sessions of which it has received Started and not Finished; a Finished is
\* received only while the count is positive, from a session that is counted.
C32_CountIsSessionsCounted ==
    /\ [](alive_count >= 0 /\ alive_count = Cardinality(CountedSessions))
    /\ [][(IdlePoll /\ status_updater # <<>> /\ Head(status_updater) = "Finished") =>
            /\ alive_count > 0
            /\ Head(status_from) \in CountedSessions
            /\ alive_count' = alive_count - 1]_vars

\* two sessions have run at once, and the one that started last has ended
\* first: its Finished is received, the other session is still counted
C32_Witness ==
    /\ alive_count = 1
    /\ \E c, d \in Connections :
          /\ c < d
          /\ connections[c].task = "running"
          /\ connections[c].received = "Started"
          /\ connections[d].received = "Finished"

====
